---- MODULE Spec2Model ----
(***************************************************************************)
(* Model of src/app.py: the defect dashboard's filtering, column           *)
(* prioritising and map rendering, and the recomputation pass of main().   *)
(*                                                                         *)
(* A DataFrame is [columns, rows]: columns is the sequence of column       *)
(* labels, rows the sequence of [idx, cells], idx being the pandas index   *)
(* label of the row and cells its values by column position.  A cell is    *)
(* [k, s, n]: a string (k = "s"), a number (k = "n") or a missing value    *)
(* (k = "nan").                                                            *)
(***************************************************************************)
EXTENDS Integers, Sequences, FiniteSets, TLC

VARIABLES pc, dtn_df, tec_df, subdivision_choice, filtered_dtn_df,
          filtered_tec_df, dtn_filters, tec_filters, dtn_defaults,
          tec_defaults, rearranged_dtn_df, rearranged_tec_df, map_view_mode,
          map_obj, shown, messages, ppc, pin, pout, pout2

dashVars == <<pc, dtn_df, tec_df, subdivision_choice, filtered_dtn_df,
              filtered_tec_df, dtn_filters, tec_filters, dtn_defaults,
              tec_defaults, rearranged_dtn_df, rearranged_tec_df,
              map_view_mode, map_obj, shown, messages>>
pureVars == <<ppc, pin, pout, pout2>>
vars == <<dashVars, pureVars>>

(***************************** bounds **************************************)
\* rows of a loaded dataset (dashboard pass)
MaxRows == 2
\* rows of the frames given to filter_dataframe / rearrange_columns alone
MaxFrameRows == 2
\* length of a priority list given to rearrange_columns alone
MaxPriority == 2

(***************************** cells ***************************************)
Str(s) == [k |-> "s", s |-> s, n |-> 0]
Num(n) == [k |-> "n", s |-> "", n |-> n]
NaN == [k |-> "nan", s |-> "", n |-> 0]
ALL == Str("All")

\* pandas isna
IsNa(cell) == cell.k = "nan"

\* elementwise ==  (a missing value equals nothing, itself included)
CellEq(cell, value) == ~IsNa(cell) /\ ~IsNa(value) /\ cell = value

(***************************** sequences ***********************************)
Range(s) == {s[i] : i \in 1..Len(s)}

RECURSIVE Concat(_)
Concat(ss) == IF ss = <<>> THEN <<>> ELSE Head(ss) \o Concat(Tail(ss))

\* the positions of s, from i on, that hold x, in increasing order
RECURSIVE Positions(_, _, _)
Positions(s, x, i) ==
    IF i > Len(s) THEN <<>>
    ELSE (IF s[i] = x THEN <<i>> ELSE <<>>) \o Positions(s, x, i + 1)

\* all sequences over S of length at most n
SeqsUpTo(S, n) == UNION {[1..m -> S] : m \in 0..n}

\* the subsequences of s with at most n elements
RECURSIVE SubSeqsFrom(_, _, _)
SubSeqsFrom(s, i, n) ==
    IF i > Len(s) \/ n = 0 THEN {<<>>}
    ELSE SubSeqsFrom(s, i + 1, n)
         \cup {<<s[i]>> \o t : t \in SubSeqsFrom(s, i + 1, n - 1)}

IsInjective(s) == \A i, j \in 1..Len(s) : s[i] = s[j] => i = j

(***************************** DataFrame ***********************************)
HasCol(df, c) == c \in Range(df.columns)

\* position of a label of a frame whose labels are unique
ColPos(df, c) == CHOOSE i \in 1..Len(df.columns) : df.columns[i] = c

\* row[c]
Cell(df, row, c) == row.cells[ColPos(df, c)]

\* df[c] as the sequence of the column's values
Column(df, c) == [i \in 1..Len(df.rows) |-> Cell(df, df.rows[i], c)]

\* read_csv: positional cells under a RangeIndex
MkFrame(columns, cellRows) ==
    [columns |-> columns,
     rows |-> [i \in 1..Len(cellRows) |-> [idx |-> i - 1, cells |-> cellRows[i]]]]

\* df[mask]: the rows whose flag is set, index labels and order kept
RECURSIVE KeepRows(_, _, _, _)
KeepRows(df, c, value, i) ==
    IF i > Len(df.rows) THEN <<>>
    ELSE (IF CellEq(Cell(df, df.rows[i], c), value) THEN <<df.rows[i]>> ELSE <<>>)
         \o KeepRows(df, c, value, i + 1)

\* df[df[column] == value]
BoolIndex(df, column, value) ==
    [columns |-> df.columns, rows |-> KeepRows(df, column, value, 1)]

\* df[labels]: for each label every position carrying it (pandas' indexer for
\* a list of labels; two positions when the frame has the label twice)
Indexer(df, labels) ==
    Concat([i \in 1..Len(labels) |-> Positions(df.columns, labels[i], 1)])

TakeColumns(df, labels) ==
    LET ix == Indexer(df, labels)
    IN [columns |-> [i \in 1..Len(ix) |-> df.columns[ix[i]]],
        rows |-> [r \in 1..Len(df.rows) |->
                    [idx |-> df.rows[r].idx,
                     cells |-> [i \in 1..Len(ix) |-> df.rows[r].cells[ix[i]]]]]]

(***************************** filter_dataframe ****************************)
\* the loop body without its test for "All"
filter_step_noguard(df, column, value) ==
    IF HasCol(df, column) THEN BoolIndex(df, column, value) ELSE df

\* the loop body keeping the rows that differ from the value
filter_step_neg(df, column, value) ==
    IF value # ALL /\ HasCol(df, column)
    THEN [columns |-> df.columns,
          rows |-> SelectSeq(df.rows, LAMBDA r : ~CellEq(Cell(df, r, column), value))]
    ELSE df

\* one iteration of the loop of filter_dataframe
filter_step(df, column, value) ==
    IF value # ALL /\ HasCol(df, column) THEN BoolIndex(df, column, value) ELSE df

\* filters: the dict's items in insertion order, each <<column, value>>
RECURSIVE filter_dataframe(_, _)
filter_dataframe(df, filters) ==
    IF filters = <<>> THEN df
    ELSE filter_dataframe(filter_step(df, Head(filters)[1], Head(filters)[2]),
                          Tail(filters))

(***************************** rearrange_columns ***************************)
available_cols(df, priority_columns) ==
    SelectSeq(priority_columns, LAMBDA c : HasCol(df, c))

remaining_cols(df, priority_columns) ==
    SelectSeq(df.columns, LAMBDA c : c \notin Range(priority_columns))

rearrange_columns(df, priority_columns) ==
    TakeColumns(df, available_cols(df, priority_columns)
                    \o remaining_cols(df, priority_columns))

(***************************** process_coordinates, centre *****************)
HasCoordColumns(df) == {"Latitude", "Longitude"} \subseteq Range(df.columns)

\* the row has both coordinates
HasCoords(df, row) ==
    ~IsNa(Cell(df, row, "Latitude")) /\ ~IsNa(Cell(df, row, "Longitude"))

\* dropna(subset=['Latitude']) instead: a row lacking only Longitude stays
dropna_lat_only(df) == SelectSeq(df.rows, LAMBDA r : ~IsNa(Cell(df, r, "Latitude")))

\* df.dropna(subset=['Latitude', 'Longitude']): rows lacking either are dropped
dropna(df) == SelectSeq(df.rows, LAMBDA r : HasCoords(df, r))

\* df[['Latitude', 'Longitude']].dropna().values.tolist()
process_coordinates(df) ==
    LET kept == dropna(df)
    IN [i \in 1..Len(kept) |->
          <<Cell(df, kept[i], "Latitude"), Cell(df, kept[i], "Longitude")>>]

\* exact rationals [num, den], den > 0, in lowest terms
Abs(x) == IF x < 0 THEN -x ELSE x
RECURSIVE Gcd(_, _)
Gcd(a, b) == IF b = 0 THEN a ELSE Gcd(b, a % b)
Frac(n, d) ==
    LET g == Gcd(Abs(n), d)
    IN [num |-> n \div g, den |-> d \div g]

RECURSIVE SumNum(_)
SumNum(cells) == IF cells = <<>> THEN 0 ELSE Head(cells).n + SumNum(Tail(cells))

\* Series.mean() of a non-empty numeric column
Mean(cells) == Frac(SumNum(cells), Len(cells))

FALLBACK_LAT == Frac(529399, 10000)
FALLBACK_LON == Frac(-1084976, 10000)

\* (a + b) / 2
FracHalfSum(a, b) == Frac(a.num * b.den + b.num * a.den, 2 * a.den * b.den)

\* the mean of the two datasets' own means (not what the code computes)
map_center_of_means(dtn, tec) ==
    LET a == process_coordinates(dtn)
        b == process_coordinates(tec)
        la(cs) == Mean([i \in 1..Len(cs) |-> cs[i][1]])
        lo(cs) == Mean([i \in 1..Len(cs) |-> cs[i][2]])
    IN IF a = <<>> /\ b = <<>> THEN <<FALLBACK_LAT, FALLBACK_LON>>
       ELSE IF a = <<>> THEN <<la(b), lo(b)>>
       ELSE IF b = <<>> THEN <<la(a), lo(a)>>
       ELSE <<FracHalfSum(la(a), la(b)), FracHalfSum(lo(a), lo(b))>>

\* [center_lat, center_lon] of create_map
map_center(dtn, tec) ==
    LET all_coords == process_coordinates(dtn) \o process_coordinates(tec)
        lats == [i \in 1..Len(all_coords) |-> all_coords[i][1]]
        lons == [i \in 1..Len(all_coords) |-> all_coords[i][2]]
    IN <<IF all_coords # <<>> THEN Mean(lats) ELSE FALLBACK_LAT,
         IF all_coords # <<>> THEN Mean(lons) ELSE FALLBACK_LON>>

(***************************** create_map *********************************)
ZOOM_START == 7
DISABLE_CLUSTERING_AT_ZOOM == 13

\* the popup of a marker: its title and the row's <<label, value>> in column order
create_popup_html(df, row, defect_type) ==
    [title |-> defect_type,
     fields |-> [i \in 1..Len(df.columns) |-> <<df.columns[i], row.cells[i]>>]]

\* the markers added to one cluster
markers_of(df, defect_type, color) ==
    IF HasCoordColumns(df)
    THEN LET kept == dropna(df)
         IN [i \in 1..Len(kept) |->
               [location |-> <<Cell(df, kept[i], "Latitude"),
                               Cell(df, kept[i], "Longitude")>>,
                popup |-> create_popup_html(df, kept[i], defect_type),
                color |-> color]]
    ELSE <<>>

\* the cluster layers built whatever the mode
cluster_layers_always(dtn, tec, mode) ==
    <<[name |-> "DTN Defects", disableClusteringAtZoom |-> DISABLE_CLUSTERING_AT_ZOOM,
       markers |-> markers_of(dtn, "DTN", "red")],
      [name |-> "ATGMS Defects", disableClusteringAtZoom |-> DISABLE_CLUSTERING_AT_ZOOM,
       markers |-> markers_of(tec, "TEC", "blue")]>>

\* the MarkerCluster layers of the map
cluster_layers(dtn, tec, mode) ==
    IF mode = "markers"
    THEN <<[name |-> "DTN Defects",
            disableClusteringAtZoom |-> DISABLE_CLUSTERING_AT_ZOOM,
            markers |-> markers_of(dtn, "DTN", "red")],
           [name |-> "ATGMS Defects",
            disableClusteringAtZoom |-> DISABLE_CLUSTERING_AT_ZOOM,
            markers |-> markers_of(tec, "TEC", "blue")]>>
    ELSE <<>>

\* the HeatMap layers of the map: one, when there is a point to show
heat_layers(dtn, tec, mode) ==
    IF mode = "markers" THEN <<>>
    ELSE LET heat_data == process_coordinates(dtn) \o process_coordinates(tec)
         IN IF heat_data # <<>> THEN <<heat_data>> ELSE <<>>

\* basemap_options of main: a tile preset's name, or a dict of tiles and attribution
basemap_options ==
    <<[key |-> "Street (OpenStreetMap)", kind |-> "str",
       tiles |-> "OpenStreetMap", attribution |-> ""],
      [key |-> "Light (CartoDB positron)", kind |-> "str",
       tiles |-> "CartoDB positron", attribution |-> ""],
      [key |-> "Dark (CartoDB dark_matter)", kind |-> "str",
       tiles |-> "CartoDB dark_matter", attribution |-> ""],
      [key |-> "Topographic (OpenTopoMap)", kind |-> "str",
       tiles |-> "OpenTopoMap", attribution |-> ""],
      [key |-> "ESRI World Street Map", kind |-> "dict",
       tiles |-> "World_Street_Map", attribution |-> "Esri, DeLorme, NAVTEQ, USGS"],
      [key |-> "ESRI World Topo Map", kind |-> "dict",
       tiles |-> "World_Topo_Map", attribution |-> "Esri, DeLorme, NAVTEQ, USGS"],
      [key |-> "ESRI World Imagery", kind |-> "dict",
       tiles |-> "World_Imagery", attribution |-> "Esri, i-cubed, USDA, USGS, AEX, GeoEye"]>>

NoMap ==
    [status |-> "none", location |-> <<>>, zoom_start |-> 0, tiles |-> "",
     attr |-> "", clusters |-> <<>>, heat |-> <<>>, locate |-> FALSE]

\* create_map: a KeyError when a frame lacks a coordinate column (lines 36-39
\* select both columns of both frames before anything else), else the map
create_map(dtn, tec, mode, basemap_choice) ==
    IF ~HasCoordColumns(dtn) \/ ~HasCoordColumns(tec)
    THEN [NoMap EXCEPT !.status = "KeyError"]
    ELSE [status |-> "ok",
          location |-> map_center(dtn, tec),
          zoom_start |-> ZOOM_START,
          tiles |-> basemap_choice.tiles,
          attr |-> IF basemap_choice.kind = "dict" THEN basemap_choice.attribution ELSE "",
          clusters |-> cluster_layers(dtn, tec, mode),
          heat |-> heat_layers(dtn, tec, mode),
          locate |-> TRUE]

(***************************** idle parts **********************************)
NoFrame == [columns |-> <<>>, rows |-> <<>>]

\* the dashboard's variables while only a pure function is exercised
DashIdle ==
    /\ pc = "idle"
    /\ dtn_df = NoFrame /\ tec_df = NoFrame
    /\ subdivision_choice = ""
    /\ filtered_dtn_df = NoFrame /\ filtered_tec_df = NoFrame
    /\ dtn_filters = <<>> /\ tec_filters = <<>>
    /\ dtn_defaults = <<>> /\ tec_defaults = <<>>
    /\ rearranged_dtn_df = NoFrame /\ rearranged_tec_df = NoFrame
    /\ map_view_mode = ""
    /\ map_obj = NoMap
    /\ shown = <<>>
    /\ messages = <<>>

\* the pure functions' variables during a dashboard pass
PureIdle == ppc = "idle" /\ pin = <<>> /\ pout = NoFrame /\ pout2 = NoFrame

(***************************** create_sidebar_filters **********************)
\* list(series.unique()): the values in order of first appearance
RECURSIVE Unique(_)
Unique(values) ==
    IF values = <<>> THEN <<>>
    ELSE LET init == Unique(SubSeq(values, 1, Len(values) - 1))
             last == values[Len(values)]
         IN IF last \in Range(init) THEN init ELSE Append(init, last)

\* dict.get(key, default) on a dict given as its items
DictGet(items, key, default) ==
    IF \E i \in 1..Len(items) : items[i][1] = key
    THEN items[CHOOSE i \in 1..Len(items) : items[i][1] = key][2]
    ELSE default

\* the index looked up in the column's values alone, without the leading "All"
default_index_shifted(unique_values, default_value) ==
    LET data == Tail(unique_values)
    IN IF \E i \in 1..Len(data) : data[i] = default_value
       THEN CHOOSE i \in 1..Len(data) :
                data[i] = default_value /\ \A j \in 1..(i - 1) : data[j] # default_value
       ELSE 1

\* unique_values.index(default_value), 0 on ValueError (positions from 1 here)
default_index(unique_values, default_value) ==
    IF \E i \in 1..Len(unique_values) : unique_values[i] = default_value
    THEN CHOOSE i \in 1..Len(unique_values) :
             /\ unique_values[i] = default_value
             /\ \A j \in 1..(i - 1) : unique_values[j] # default_value
    ELSE 1

\* the select boxes built for a frame: one per configured column the frame has
sidebar_widgets(df, filter_columns, default_values) ==
    LET present == SelectSeq(filter_columns, LAMBDA c : HasCol(df, c))
    IN [i \in 1..Len(present) |->
          LET unique_values == <<ALL>> \o Unique(Column(df, present[i]))
          IN [col |-> present[i],
              options |-> unique_values,
              index |-> default_index(unique_values,
                                      DictGet(default_values, present[i], ALL))]]

\* what the select boxes show before the operator touches them
widget_defaults(widgets) ==
    [i \in 1..Len(widgets) |-> <<widgets[i].col, widgets[i].options[widgets[i].index]>>]

\* every dict of selections the select boxes can return
RECURSIVE Selections(_)
Selections(widgets) ==
    IF widgets = <<>> THEN {<<>>}
    ELSE {<<<<Head(widgets).col, v>>>> \o rest :
             v \in Range(Head(widgets).options), rest \in Selections(Tail(widgets))}

(***************************** main: configuration *************************)
SUBDIVISIONS == <<"HARDISTY", "SUTHERLAND", "WILKIE", "WYNYARD">>
dtn_default_filters == <<<<"Status", Str("Open")>>>>
tec_default_filters ==
    <<<<"Status", Str("Confirmed")>>, <<"Sys", Str("TGMS")>>, <<"Severity", Str("Urgent")>>>>
dtn_filter_columns == <<"Status", "Asset">>
tec_filter_columns == <<"Status", "Sys", "Severity">>
dtn_priority_cols ==
    <<"MP", "Asset Type", "Asset", "Defect Date", "Comment",
      "Reg Rule", "Reg Rule Description", "Status", "Action">>
tec_priority_cols ==
    <<"MP", "Linecode", "Date Time", "Sys", "Severity",
      "Type", "Value", "Length", "Status">>

\* the subdivision filter left out
subdivision_filter_none(df, choice) == df

\* df[df["Subdivision"] == subdivision_choice]
subdivision_filter(df, choice) == BoolIndex(df, "Subdivision", Str(choice))

(***************************** main: the datasets read *********************)
DTN_COLUMNS == <<"Subdivision", "Latitude", "Longitude", "Status", "MP">>
TEC_COLUMNS == <<"Subdivision", "Latitude", "Longitude", "Status", "Sys", "Severity">>

\* the rows a dtn.csv is drawn from
DTN_SAMPLE ==
    << <<Str("WILKIE"), Num(1), Num(1), Str("Open"), Num(10)>>,
       <<Str("WILKIE"), Num(4), Num(2), Str("Open"), Num(11)>>,
       <<Str("WILKIE"), NaN, Num(2), Str("Open"), Num(12)>>,
       <<Str("WILKIE"), Num(3), NaN, Str("Closed"), Num(13)>>,
       <<Str("WYNYARD"), Num(2), Num(2), Str("Open"), Num(14)>> >>

\* the rows a tec.csv is drawn from
TEC_SAMPLE ==
    << <<Str("WILKIE"), Num(1), Num(1), Str("Confirmed"), Str("TGMS"), Str("Urgent")>>,
       <<Str("WILKIE"), Num(5), Num(3), Str("Confirmed"), Str("ATGMS"), Str("Urgent")>>,
       <<Str("WILKIE"), NaN, Num(1), Str("Confirmed"), NaN, Str("Priority")>>,
       <<Str("WILKIE"), Num(2), NaN, Str("Rejected"), Str("ATGMS"), Str("Urgent")>>,
       <<Str("WYNYARD"), Num(2), Num(2), Str("Confirmed"), Str("TGMS"), Str("Urgent")>> >>

\* the column sets a file may come with
DTN_SCHEMAS == {DTN_COLUMNS, <<"Subdivision", "Status", "MP">>}
TEC_SCHEMAS == {TEC_COLUMNS,
                <<"Subdivision", "Status", "Sys", "Severity">>,
                <<"Latitude", "Longitude", "Status", "Sys", "Severity">>}

\* the files dtn.csv / tec.csv can hold: at most MaxRows rows of the sample, in
\* the sample's order, under one of the schemas
Datasets(columns, sample, schemas) ==
    {TakeColumns(MkFrame(columns, rs), sc) :
        rs \in SubSeqsFrom(sample, 1, MaxRows), sc \in schemas}

NoShown ==
    [map |-> NoMap, warning |-> FALSE, tables |-> FALSE, header |-> "",
     dtn_total |-> 0, dtn_table |-> NoFrame, tec_total |-> 0, tec_table |-> NoFrame]

(***************************** main: one pass ******************************)
\* nothing computed or shown yet in this pass
PassCleared ==
    /\ subdivision_choice' = ""
    /\ filtered_dtn_df' = NoFrame /\ filtered_tec_df' = NoFrame
    /\ dtn_filters' = <<>> /\ tec_filters' = <<>>
    /\ dtn_defaults' = <<>> /\ tec_defaults' = <<>>
    /\ rearranged_dtn_df' = NoFrame /\ rearranged_tec_df' = NoFrame
    /\ map_view_mode' = ""
    /\ map_obj' = NoMap
    /\ shown' = NoShown
    /\ messages' = <<>>

Init ==
    /\ pc = "start"
    /\ dtn_df = NoFrame /\ tec_df = NoFrame
    /\ subdivision_choice = ""
    /\ filtered_dtn_df = NoFrame /\ filtered_tec_df = NoFrame
    /\ dtn_filters = <<>> /\ tec_filters = <<>>
    /\ dtn_defaults = <<>> /\ tec_defaults = <<>>
    /\ rearranged_dtn_df = NoFrame /\ rearranged_tec_df = NoFrame
    /\ map_view_mode = ""
    /\ map_obj = NoMap
    /\ shown = NoShown
    /\ messages = <<>>
    /\ PureIdle

\* load_data() finds both files (lines 147-150)
LoadData ==
    /\ pc = "start"
    /\ \E d \in Datasets(DTN_COLUMNS, DTN_SAMPLE, DTN_SCHEMAS),
          t \in Datasets(TEC_COLUMNS, TEC_SAMPLE, TEC_SCHEMAS) :
         dtn_df' = d /\ tec_df' = t
    /\ pc' = "select"
    /\ UNCHANGED <<subdivision_choice, filtered_dtn_df, filtered_tec_df, dtn_filters,
                   tec_filters, dtn_defaults, tec_defaults, rearranged_dtn_df,
                   rearranged_tec_df, map_view_mode, map_obj, shown, messages, pureVars>>

\* load_data() catches FileNotFoundError, shows it and returns None, None;
\* main returns (lines 14-18, 149-150)
LoadDataFails ==
    /\ pc = "start"
    /\ messages' = <<"error: file not found">>
    /\ pc' = "load_failed"
    /\ UNCHANGED <<dtn_df, tec_df, subdivision_choice, filtered_dtn_df, filtered_tec_df,
                   dtn_filters, tec_filters, dtn_defaults, tec_defaults,
                   rearranged_dtn_df, rearranged_tec_df, map_view_mode, map_obj, shown,
                   pureVars>>

\* the subdivision select box and the subdivision filter (lines 152-161)
SelectSubdivision ==
    /\ pc = "select"
    /\ \E i \in 1..Len(SUBDIVISIONS) :
         /\ subdivision_choice' = SUBDIVISIONS[i]
         /\ IF HasCol(dtn_df, "Subdivision") /\ HasCol(tec_df, "Subdivision")
            THEN /\ filtered_dtn_df' = subdivision_filter(dtn_df, SUBDIVISIONS[i])
                 /\ filtered_tec_df' = subdivision_filter(tec_df, SUBDIVISIONS[i])
                 /\ pc' = "dtn_filters"
                 /\ UNCHANGED messages
            ELSE /\ messages' = Append(messages, "error: 'Subdivision' column not found")
                 /\ pc' = "halted"
                 /\ UNCHANGED <<filtered_dtn_df, filtered_tec_df>>
    /\ UNCHANGED <<dtn_df, tec_df, dtn_filters, tec_filters, dtn_defaults, tec_defaults,
                   rearranged_dtn_df, rearranged_tec_df, map_view_mode, map_obj, shown,
                   pureVars>>

\* the DTN select boxes and filter_dataframe (lines 176-184)
DtnFilters ==
    /\ pc = "dtn_filters"
    /\ LET widgets == sidebar_widgets(filtered_dtn_df, dtn_filter_columns,
                                      dtn_default_filters)
       IN /\ dtn_defaults' = widget_defaults(widgets)
          /\ \E selected \in Selections(widgets) :
               /\ dtn_filters' = selected
               /\ filtered_dtn_df' = filter_dataframe(filtered_dtn_df, selected)
    /\ pc' = "tec_filters"
    /\ UNCHANGED <<dtn_df, tec_df, subdivision_choice, filtered_tec_df, tec_filters,
                   tec_defaults, rearranged_dtn_df, rearranged_tec_df, map_view_mode,
                   map_obj, shown, messages, pureVars>>

\* the TEC select boxes, filter_dataframe, and both rearrange_columns calls
\* (lines 186-207)
TecFilters ==
    /\ pc = "tec_filters"
    /\ LET widgets == sidebar_widgets(filtered_tec_df, tec_filter_columns,
                                      tec_default_filters)
       IN /\ tec_defaults' = widget_defaults(widgets)
          /\ \E selected \in Selections(widgets) :
               /\ tec_filters' = selected
               /\ filtered_tec_df' = filter_dataframe(filtered_tec_df, selected)
               /\ rearranged_tec_df' =
                      rearrange_columns(filter_dataframe(filtered_tec_df, selected),
                                        tec_priority_cols)
    /\ rearranged_dtn_df' = rearrange_columns(filtered_dtn_df, dtn_priority_cols)
    /\ pc' = "map"
    /\ UNCHANGED <<dtn_df, tec_df, subdivision_choice, filtered_dtn_df, dtn_filters,
                   dtn_defaults, map_view_mode, map_obj, shown, messages, pureVars>>

\* the map settings and the map expander (lines 229-296): create_map is called
\* when either frame has both coordinate columns
RenderMap ==
    /\ pc = "map"
    /\ \E mode \in {"markers", "heatmap"}, b \in 1..Len(basemap_options) :
         /\ map_view_mode' = mode
         /\ IF HasCoordColumns(rearranged_dtn_df) \/ HasCoordColumns(rearranged_tec_df)
            THEN LET m == create_map(rearranged_dtn_df, rearranged_tec_df, mode,
                                     basemap_options[b])
                 IN /\ map_obj' = m
                    /\ IF m.status = "ok"
                       THEN /\ shown' = [shown EXCEPT !.map = m]
                            /\ pc' = "tables"
                       ELSE /\ shown' = shown
                            /\ pc' = "crashed"
                    /\ UNCHANGED messages
            ELSE /\ messages' = Append(messages,
                                       "warning: No coordinate data available for mapping.")
                 /\ shown' = [shown EXCEPT !.warning = TRUE]
                 /\ pc' = "tables"
                 /\ UNCHANGED map_obj
    /\ UNCHANGED <<dtn_df, tec_df, subdivision_choice, filtered_dtn_df, filtered_tec_df,
                   dtn_filters, tec_filters, dtn_defaults, tec_defaults,
                   rearranged_dtn_df, rearranged_tec_df, pureVars>>

\* the header, the row counts and the two tables (lines 298-307)
ShowTables ==
    /\ pc = "tables"
    /\ shown' = [shown EXCEPT !.tables = TRUE,
                              !.header = subdivision_choice,
                              !.dtn_total = Len(rearranged_dtn_df.rows),
                              !.dtn_table = rearranged_dtn_df,
                              !.tec_total = Len(rearranged_tec_df.rows),
                              !.tec_table = rearranged_tec_df]
    /\ pc' = "done"
    /\ UNCHANGED <<dtn_df, tec_df, subdivision_choice, filtered_dtn_df, filtered_tec_df,
                   dtn_filters, tec_filters, dtn_defaults, tec_defaults,
                   rearranged_dtn_df, rearranged_tec_df, map_view_mode, map_obj,
                   messages, pureVars>>

\* the next interaction reruns main on the cached datasets (line 11)
Rerun ==
    /\ pc \in {"done", "halted", "crashed"}
    /\ PassCleared
    /\ pc' = "select"
    /\ UNCHANGED <<dtn_df, tec_df, pureVars>>

Next ==
    \/ LoadData
    \/ LoadDataFails
    \/ SelectSubdivision
    \/ DtnFilters
    \/ TecFilters
    \/ RenderMap
    \/ ShowTables
    \/ Rerun

Spec == Init /\ [][Next]_vars

(***************************** filter_dataframe alone **********************)
FilterColumns == <<"Status", "Sys">>
FilterCellRows ==
    {<<st, sy>> : st \in {Str("Open"), Str("Closed"), NaN},
                  sy \in {Str("TGMS"), Str("ATGMS")}}
FilterFrames ==
    {MkFrame(FilterColumns, rs) : rs \in SeqsUpTo(FilterCellRows, MaxFrameRows)}

\* the values a filter may name for a column ("Severity" is no column of the frames)
FilterValues(c) ==
    CASE c = "Status" -> {ALL, Str("Open"), Str("Closed"), NaN}
      [] c = "Sys" -> {ALL, Str("TGMS"), Str("ATGMS")}
      [] OTHER -> {ALL, Str("Urgent")}
FilterKeys == {"Status", "Sys", "Severity"}

\* dicts of at most two items, as their items in insertion order
FilterSpecs ==
    {<<>>}
    \cup {<<<<c, v>>>> : c \in FilterKeys, v \in {ALL, Str("Open"), Str("Closed"), NaN,
                                                    Str("TGMS"), Str("ATGMS"), Str("Urgent")}}
    \cup {<<<<c1, v1>>, <<c2, v2>>>> :
             c1 \in FilterKeys, c2 \in FilterKeys,
             v1 \in {ALL, Str("Open"), Str("Closed"), NaN, Str("TGMS"), Str("ATGMS"), Str("Urgent")},
             v2 \in {ALL, Str("Open"), Str("Closed"), NaN, Str("TGMS"), Str("ATGMS"), Str("Urgent")}}

WellFormedFilter(f) ==
    /\ \A i \in 1..Len(f) : f[i][2] \in FilterValues(f[i][1])
    /\ \A i, j \in 1..Len(f) : f[i][1] = f[j][1] => i = j

InitFilter ==
    /\ DashIdle
    /\ ppc = "f_in"
    /\ \E D \in FilterFrames, F \in FilterSpecs :
         /\ WellFormedFilter(F)
         /\ pin = [df |-> D, filters |-> F, second |-> <<>>]
    /\ pout = NoFrame /\ pout2 = NoFrame

\* filter_dataframe(D, F)
FilterOnce ==
    /\ ppc = "f_in"
    /\ pout' = filter_dataframe(pin.df, pin.filters)
    /\ ppc' = "f_once"
    /\ UNCHANGED <<pin, pout2, dashVars>>

\* filter_dataframe(filter_dataframe(D, {c: v1}), {c: v2}), c a column of D
FilterAgain ==
    /\ ppc = "f_once"
    /\ Len(pin.filters) = 1
    /\ HasCol(pin.df, pin.filters[1][1])
    /\ \E v2 \in FilterValues(pin.filters[1][1]) :
         /\ pin' = [pin EXCEPT !.second = <<pin.filters[1][1], v2>>]
         /\ pout2' = filter_dataframe(pout, <<<<pin.filters[1][1], v2>>>>)
    /\ ppc' = "f_twice"
    /\ UNCHANGED <<pout, dashVars>>

NextFilter == FilterOnce \/ FilterAgain
SpecFilter == InitFilter /\ [][NextFilter]_vars

(***************************** rearrange_columns alone *********************)
ReorderNames == {"Status", "MP", "Asset"}
ReorderColumnLists == {cs \in SeqsUpTo(ReorderNames, 3) : cs # <<>> /\ IsInjective(cs)}

\* a frame of n rows whose cell at row r under label c tells r and c apart
NameCode(c) == CASE c = "Status" -> 1 [] c = "MP" -> 2 [] OTHER -> 3
ReorderFrame(cs, n) ==
    MkFrame(cs, [r \in 1..n |-> [i \in 1..Len(cs) |-> Num(10 * r + NameCode(cs[i]))]])
ReorderFrames == {ReorderFrame(cs, n) : cs \in ReorderColumnLists, n \in 0..MaxFrameRows}

\* priority lists: any finite sequence of names, "Comment" being no column
PriorityLists == SeqsUpTo(ReorderNames \cup {"Comment"}, MaxPriority)

InitReorder ==
    /\ DashIdle
    /\ ppc = "r_in"
    /\ \E D \in ReorderFrames, P \in PriorityLists : pin = [df |-> D, priority |-> P]
    /\ pout = NoFrame /\ pout2 = NoFrame

\* rearrange_columns(D, P)
ReorderOnce ==
    /\ ppc = "r_in"
    /\ pout' = rearrange_columns(pin.df, pin.priority)
    /\ ppc' = "r_once"
    /\ UNCHANGED <<pin, pout2, dashVars>>

\* rearrange_columns(rearrange_columns(D, P), P)
ReorderAgain ==
    /\ ppc = "r_once"
    /\ pout2' = rearrange_columns(pout, pin.priority)
    /\ ppc' = "r_twice"
    /\ UNCHANGED <<pin, pout, dashVars>>

NextReorder == ReorderOnce \/ ReorderAgain
SpecReorder == InitReorder /\ [][NextReorder]_vars

(***************************** properties: filter_dataframe ****************)
\* a is b with some rows left out, order kept
RECURSIVE IsSubsequence(_, _)
IsSubsequence(a, b) ==
    IF a = <<>> THEN TRUE
    ELSE IF b = <<>> THEN FALSE
    ELSE IF Head(a) = Head(b) THEN IsSubsequence(Tail(a), Tail(b))
    ELSE IsSubsequence(a, Tail(b))

\* the filter item <<c, v>> constrains the frame D
Constrains(D, item) == item[2] # ALL /\ HasCol(D, item[1])

\* row[c] == v in Python's sense
RowHas(D, row, item) ==
    row.cells[ColPos(D, item[1])] = item[2] /\ ~IsNa(item[2])

\* C1: filter_dataframe(D, F) is a subsequence of D's rows under D's columns,
\* every retained row has row[c] == F[c] for every column c of D with
\* F[c] != 'All', and a filter made only of 'All' values and of columns D
\* does not have returns D itself.
C1_FilterSubsequence ==
    ppc = "f_once" =>
        /\ pout.columns = pin.df.columns
        /\ IsSubsequence(pout.rows, pin.df.rows)
        /\ \A i \in 1..Len(pout.rows), j \in 1..Len(pin.filters) :
             Constrains(pin.df, pin.filters[j])
                 => RowHas(pin.df, pout.rows[i], pin.filters[j])
        /\ (\A j \in 1..Len(pin.filters) : ~Constrains(pin.df, pin.filters[j]))
               => pout = pin.df

\* a filter naming a column D lacks and a column D has, keeping some rows and
\* dropping others
C1_Witness ==
    /\ ppc = "f_once"
    /\ \E j \in 1..Len(pin.filters) :
         pin.filters[j][2] # ALL /\ ~HasCol(pin.df, pin.filters[j][1])
    /\ \E j \in 1..Len(pin.filters) : Constrains(pin.df, pin.filters[j])
    /\ 0 < Len(pout.rows) /\ Len(pout.rows) < Len(pin.df.rows)

\* C9 as stated: filtering by {c: v1} and then by {c: v2} gives the same
\* frame as filtering once by {c: v2}.
C9_LaterValueWins ==
    ppc = "f_twice" => pout2 = filter_dataframe(pin.df, <<pin.second>>)

\* C9 amended: filtering by {c: v1} and then by {c: v2} keeps exactly the
\* rows of D that meet both constraints (an 'All' constrains nothing), in D's
\* order; that is the once-filtered frame for v2 whenever v1 is 'All' or
\* equals v2.
C9_BothConstraints ==
    ppc = "f_twice" =>
        LET D == pin.df
            first == pin.filters[1]
            Meets(row, item) == item[2] = ALL \/ RowHas(D, row, item)
            both == SelectSeq(D.rows, LAMBDA r : Meets(r, first) /\ Meets(r, pin.second))
            later == SelectSeq(D.rows, LAMBDA r : Meets(r, pin.second))
        IN /\ pout2 = [columns |-> D.columns, rows |-> both]
           /\ (first[2] = ALL \/ first[2] = pin.second[2])
                  => pout2 = [columns |-> D.columns, rows |-> later]

\* two different values of one column, each held by some row
C9_Witness ==
    /\ ppc = "f_twice"
    /\ pin.filters[1][2] # ALL /\ pin.second[2] # ALL
    /\ pin.filters[1][2] # pin.second[2]
    /\ Len(pout.rows) > 0
    /\ \E i \in 1..Len(pin.df.rows) : RowHas(pin.df, pin.df.rows[i], pin.second)
    /\ pout2.rows = <<>>

(***************************** properties: rearrange_columns ***************)
\* C2 as stated: rearrange_columns(D, P) has D's columns as a set and in
\* number, none twice, ordered as the columns of P that D has, in P's order,
\* followed by the columns of D that P does not name, in D's order.
C2_ColumnsPreserved ==
    ppc = "r_once" =>
        LET D == pin.df
            P == pin.priority
        IN /\ Range(pout.columns) = Range(D.columns)
           /\ Len(pout.columns) = Len(D.columns)
           /\ IsInjective(pout.columns)
           /\ pout.columns = SelectSeq(P, LAMBDA c : c \in Range(D.columns))
                             \o SelectSeq(D.columns, LAMBDA c : c \notin Range(P))

\* C10 as stated: rearranging the rearranged frame by the same priority list
\* changes neither the columns, their order, nor the rows.
C10_Idempotent ==
    ppc = "r_twice" => pout2 = pout

(***************************** properties: the dashboard pass **************)
\* the rows of a frame that have both coordinates
CoordRows(df) ==
    SelectSeq(df.rows, LAMBDA r : Cell(df, r, "Latitude").k = "n"
                                  /\ Cell(df, r, "Longitude").k = "n")

\* the <<Latitude, Longitude>> of those rows, in order
CoordsOf(df) ==
    [i \in 1..Len(CoordRows(df)) |->
        <<Cell(df, CoordRows(df)[i], "Latitude"), Cell(df, CoordRows(df)[i], "Longitude")>>]

RECURSIVE Total(_, _)
Total(points, k) ==
    IF points = <<>> THEN 0 ELSE Head(points)[k].n + Total(Tail(points), k)

\* the fraction q is the number a / b
IsQuotient(q, a, b) == q.den > 0 /\ q.num * b = a * q.den

\* the rows of the loaded frame in the selected subdivision
SubdivisionRows(df) ==
    SelectSeq(df.rows, LAMBDA r : Cell(df, r, "Subdivision") = Str(subdivision_choice))

\* the pass has run both filters
Filtered == pc \in {"map", "tables", "done", "crashed"}

\* C3 as stated: with a Subdivision column in both datasets no pass ends in an
\* unhandled error, and every finished pass shows both tables and the map
\* (read in the code's favour where no map can be drawn: a pass over two
\* frames without coordinate columns shows its warning in the map's place).
C3_EveryPassCompletes ==
    /\ pc # "crashed"
    /\ pc = "done" =>
           /\ shown.tables
           /\ shown.map.status = "ok"
              \/ (shown.warning /\ ~HasCoordColumns(dtn_df) /\ ~HasCoordColumns(tec_df))

\* C4: the centre of the map is the mean latitude and the mean longitude over
\* the rows of both frames together that have both coordinates, and
\* (52.9399, -108.4976), in lowest terms (529399/10000, -67811/625), when
\* there is no such row.
C4_CenterIsUnionMean ==
    map_obj.status = "ok" =>
        LET points == CoordsOf(rearranged_dtn_df) \o CoordsOf(rearranged_tec_df)
        IN IF points = <<>>
           THEN map_obj.location = <<[num |-> 529399, den |-> 10000],
                                      [num |-> -67811, den |-> 625]>>
           ELSE /\ IsQuotient(map_obj.location[1], Total(points, 1), Len(points))
                /\ IsQuotient(map_obj.location[2], Total(points, 2), Len(points))

\* two DTN points and one TEC point whose union mean (2, 4/3) is not the mean
\* (7/4, 5/4) of the two datasets' means
C4_Witness ==
    /\ map_obj.status = "ok"
    /\ CoordsOf(rearranged_dtn_df) = <<<<Num(1), Num(1)>>, <<Num(4), Num(2)>>>>
    /\ CoordsOf(rearranged_tec_df) = <<<<Num(1), Num(1)>>>>
    /\ map_obj.location = <<[num |-> 2, den |-> 1], [num |-> 4, den |-> 3]>>

\* C5: in markers mode each cluster holds one marker per row of its own frame
\* that has both coordinates and none of the other frame; in heatmap mode the
\* heat data is one point per such row of either frame; the tables shown hold
\* every filtered row, those without coordinates too.
C5_MissingCoordinates ==
    /\ (map_obj.status = "ok" /\ map_view_mode = "markers") =>
           /\ Len(map_obj.clusters) = 2
           /\ [i \in 1..Len(map_obj.clusters[1].markers) |->
                  map_obj.clusters[1].markers[i].location] = CoordsOf(rearranged_dtn_df)
           /\ [i \in 1..Len(map_obj.clusters[2].markers) |->
                  map_obj.clusters[2].markers[i].location] = CoordsOf(rearranged_tec_df)
           /\ \A i \in 1..Len(map_obj.clusters[1].markers) :
                  map_obj.clusters[1].markers[i].popup.title = "DTN"
           /\ \A i \in 1..Len(map_obj.clusters[2].markers) :
                  map_obj.clusters[2].markers[i].popup.title = "TEC"
    /\ (map_obj.status = "ok" /\ map_view_mode = "heatmap") =>
           Concat(map_obj.heat) = CoordsOf(rearranged_dtn_df) \o CoordsOf(rearranged_tec_df)
    /\ pc = "done" =>
           /\ [i \in 1..Len(shown.dtn_table.rows) |-> shown.dtn_table.rows[i].idx]
                  = [i \in 1..Len(filtered_dtn_df.rows) |-> filtered_dtn_df.rows[i].idx]
           /\ [i \in 1..Len(shown.tec_table.rows) |-> shown.tec_table.rows[i].idx]
                  = [i \in 1..Len(filtered_tec_df.rows) |-> filtered_tec_df.rows[i].idx]

\* a finished markers pass whose DTN table holds a row with and a row without
\* coordinates, and whose TEC table holds a row without
C5_Witness ==
    /\ pc = "done" /\ map_obj.status = "ok" /\ map_view_mode = "markers"
    /\ Len(shown.dtn_table.rows) = 2
    /\ Len(map_obj.clusters[1].markers) = 1
    /\ Len(shown.tec_table.rows) = 1
    /\ map_obj.clusters[2].markers = <<>>

\* C6: a heatmap render holds no cluster layer (so no marker), a markers
\* render no heat layer.
C6_ModesExclusive ==
    map_obj.status = "ok" =>
        /\ map_view_mode = "heatmap" => map_obj.clusters = <<>>
        /\ map_view_mode = "markers" => map_obj.heat = <<>>

\* a heatmap render with points of both datasets in its heat layer
C6_Witness ==
    /\ map_obj.status = "ok" /\ map_view_mode = "heatmap"
    /\ Len(map_obj.heat) = 1
    /\ CoordsOf(rearranged_dtn_df) # <<>> /\ CoordsOf(rearranged_tec_df) # <<>>

\* what the select boxes of a frame must show at first: for each configured
\* column the frame has, the configured default if some row of the selected
\* subdivision holds it, 'All' if none does
ExpectedDefaults(df, filter_columns, default_values) ==
    LET present == SelectSeq(filter_columns, LAMBDA c : c \in Range(df.columns))
        Configured(c) ==
            {default_values[i][2] : i \in {j \in 1..Len(default_values) :
                                              default_values[j][1] = c}}
        Held(c) == {Cell(df, SubdivisionRows(df)[i], c) : i \in 1..Len(SubdivisionRows(df))}
    IN [i \in 1..Len(present) |->
          <<present[i],
            IF Configured(present[i]) \cap Held(present[i]) # {}
            THEN CHOOSE v \in Configured(present[i]) : TRUE
            ELSE ALL>>]

\* C7: each select box starts on its configured default when the column holds
\* that value and on 'All' when it does not, column by column and without any
\* message; a pass run on those defaults keeps only rows meeting every default
\* that is not 'All'.
C7_DefaultPerColumn ==
    Filtered =>
        /\ dtn_defaults = ExpectedDefaults(dtn_df, dtn_filter_columns, dtn_default_filters)
        /\ tec_defaults = ExpectedDefaults(tec_df, tec_filter_columns, tec_default_filters)
        /\ pc = "map" => messages = <<>>
        /\ tec_filters = tec_defaults =>
               \A i \in 1..Len(rearranged_tec_df.rows), j \in 1..Len(tec_defaults) :
                   tec_defaults[j][2] # ALL =>
                       Cell(rearranged_tec_df, rearranged_tec_df.rows[i], tec_defaults[j][1])
                           = tec_defaults[j][2]
        /\ dtn_filters = dtn_defaults =>
               \A i \in 1..Len(rearranged_dtn_df.rows), j \in 1..Len(dtn_defaults) :
                   dtn_defaults[j][2] # ALL =>
                       Cell(rearranged_dtn_df, rearranged_dtn_df.rows[i], dtn_defaults[j][1])
                           = dtn_defaults[j][2]

\* TEC without a Sys == TGMS row in the subdivision: Sys starts on 'All' while
\* Status == Confirmed and Severity == Urgent still drop a row
C7_Witness ==
    /\ pc = "done"
    /\ tec_defaults = <<<<"Status", Str("Confirmed")>>, <<"Sys", ALL>>,
                        <<"Severity", Str("Urgent")>>>>
    /\ tec_filters = tec_defaults
    /\ Len(SubdivisionRows(tec_df)) = 2
    /\ shown.tec_total = 1

\* the table holds only rows of the loaded frame that lie in the selected
\* subdivision and meet every selected filter that is not 'All'
TableMatches(table, df, filters) ==
    \A i \in 1..Len(table.rows) :
        LET row == table.rows[i]
            orig == df.rows[row.idx + 1]
        IN /\ row.idx + 1 \in 1..Len(df.rows)
           /\ Range(table.columns) = Range(df.columns)
           /\ \A c \in Range(df.columns) : Cell(table, row, c) = Cell(df, orig, c)
           /\ Cell(table, row, "Subdivision") = Str(subdivision_choice)
           /\ \A j \in 1..Len(filters) :
                  filters[j][2] # ALL => Cell(table, row, filters[j][1]) = filters[j][2]

\* C8: after a pass that reaches the tables, each table holds only rows of its
\* dataset in the selected subdivision that meet every selected filter other
\* than 'All', and each 'Total Rows' is the number of rows of its table.
C8_TablesMatchSelection ==
    pc = "done" =>
        /\ shown.tables
        /\ shown.header = subdivision_choice
        /\ TableMatches(shown.dtn_table, dtn_df, dtn_filters)
        /\ TableMatches(shown.tec_table, tec_df, tec_filters)
        /\ shown.dtn_total = Len(shown.dtn_table.rows)
        /\ shown.tec_total = Len(shown.tec_table.rows)

\* WILKIE with Status == Open for DTN, out of a file that also holds a row the
\* selection drops
C8_Witness ==
    /\ pc = "done"
    /\ subdivision_choice = "WILKIE"
    /\ dtn_filters = <<<<"Status", Str("Open")>>>>
    /\ Len(dtn_df.rows) = 2
    /\ shown.dtn_total = 1
    /\ \E i \in 1..Len(dtn_df.rows) : Cell(dtn_df, dtn_df.rows[i], "Subdivision") = Str("WYNYARD")

====
